---- MODULE Spec2Model ----
(***************************************************************************)
(* Model of scripts/deal_scorer.py: calculate_deal_score, the pipeline     *)
(* filter -> StandardScaler -> IsolationForest -> min-max normalisation -> *)
(* write-back.  Floats are fixed-point integers; a Python dict is a        *)
(* function whose DOMAIN is its key set; None is <<>>, NaN is 0/0.           *)
(***************************************************************************)
EXTENDS Integers, Sequences, FiniteSets, TLC

VARIABLES properties, pc, i, valid, scaler, X_scaled, estimators_, rng,
          offset_, predictions, scores, normalized, run, prevOut

vars == <<properties, pc, i, valid, scaler, X_scaled, estimators_, rng,
          offset_, predictions, scores, normalized, run, prevOut>>

(* ---------------- bounds of the model ---------------- *)
\* copies of one listing in a bulk input
Bulk == 8
\* longest input list enumerated element by element
MaxSmallLen == 2
\* calls of calculate_deal_score on the same input
MaxRuns == 2

(* ---------------- program constants ---------------- *)
MinPrice == 50000
MaxPrice == 5000000
MaxSqft == 10000
DefaultBaths == 0
DefaultYearBuilt == 1970
NEstimators == 100
ContaminationPct == 10
MaxSamples == 256
NumFeatures == 5

(* ---------------- fixed-point representation ---------------- *)
\* price / sqft keeps PpsfScale fractional units
PpsfScale == 100
\* a split threshold is lo + k/SplitRes * (hi - lo)
SplitRes == 16
\* the pseudo-random generator is a 16-bit linear congruential generator
RngMod == 65536
RngMul == 25173
RngInc == 13849
\* path lengths and exponents are in 1/Milli
Milli == 1000

(* ---------------- Python values ---------------- *)
None == <<>>
NaN == <<0, 0>>

\* dict.get(k): None when the key is absent
Get(p, k) == IF k \in DOMAIN p THEN <<p[k]>> ELSE None

\* bool(v) of a number or None
Truthy(o) == o # None /\ o[1] # 0

\* dict.get(k, d): d when the key is absent
GetDefault(p, k, d) == IF k \in DOMAIN p THEN p[k] ELSE d

\* v or d
Or(v, d) == IF v # 0 THEN v ELSE d

Min(a, b) == IF a <= b THEN a ELSE b

(* ---------------- input listings ---------------- *)
Kinds ==
  << [sqft |-> 10000, beds |-> 5, baths |-> 4, yearBuilt |-> 2000, price |-> 5000000],
     [sqft |-> 2000,  beds |-> 3, baths |-> 2, yearBuilt |-> 1990, price |-> 300000,
      address |-> "12 Elm St", city |-> "Providence", url |-> "http://x/12",
      soldDate |-> "2024-05-01"],
     [sqft |-> 2000,  beds |-> 3, price |-> 55555, city |-> "Warwick"],
     [sqft |-> 5000,  beds |-> 4, baths |-> 0, yearBuilt |-> 0, price |-> 120000],
     [sqft |-> 2000,  beds |-> 3, baths |-> 2, yearBuilt |-> 1990, price |-> 50000,
      address |-> "9 Oak Ave", city |-> "Cranston", url |-> "http://x/9",
      soldDate |-> "2023-11-20"],
     [sqft |-> 2000,  beds |-> 3, baths |-> 2, yearBuilt |-> 1990, price |-> 5000001],
     [sqft |-> 10001, beds |-> 3, baths |-> 2, yearBuilt |-> 1990, price |-> 300000],
     [sqft |-> -100,  beds |-> 3, baths |-> 2, yearBuilt |-> 1990, price |-> 300000],
     [sqft |-> 0,     beds |-> 3, baths |-> 2, yearBuilt |-> 1990, price |-> 300000],
     [sqft |-> 2000,  beds |-> 0, baths |-> 2, yearBuilt |-> 1990, price |-> 300000],
     [sqft |-> 2000,  beds |-> 3, baths |-> 2, yearBuilt |-> 1990] >>

\* the kinds repeated in bulk inputs
BulkKinds == 1..4

RECURSIVE Repeat(_, _)
Repeat(x, n) == IF n = 0 THEN <<>> ELSE <<x>> \o Repeat(x, n - 1)

RECURSIVE Concat(_, _)
Concat(cnt, k) ==
  IF k \notin BulkKinds THEN <<>>
  ELSE Repeat(Kinds[k], cnt[k]) \o Concat(cnt, k + 1)

SmallInputs ==
  UNION { [1..n -> {Kinds[k] : k \in 1..Len(Kinds)}] : n \in 0..MaxSmallLen }

BulkInputs ==
  { Concat(cnt, 1) : cnt \in [BulkKinds -> {0, 1, Bulk}] }

\* s with x put in after its first n elements
InsertAt(s, n, x) == SubSeq(s, 1, n) \o <<x>> \o SubSeq(s, n + 1, Len(s))

\* one listing of every bulk kind, and one more listing anywhere among them
MixedInputs ==
  LET base == Concat([k \in BulkKinds |-> 1], 1)
  IN { InsertAt(base, n, Kinds[k]) : n \in 0..Len(base), k \in 1..Len(Kinds) }

Inputs == SmallInputs \cup BulkInputs \cup MixedInputs

(* ---------------- filter and feature extraction ---------------- *)
\* Admits with the lower price bound made inclusive
AdmitsPriceInclusive(p) ==
  /\ Truthy(Get(p, "sqft")) /\ Truthy(Get(p, "beds")) /\ Truthy(Get(p, "price"))
  /\ ~ (p.sqft <= 0 \/ p.price < MinPrice \/ p.price > MaxPrice)
  /\ ~ (p.sqft > MaxSqft)

\* the three `continue` tests of the filter loop, negated
Admits(p) ==
  /\ Truthy(Get(p, "sqft")) /\ Truthy(Get(p, "beds")) /\ Truthy(Get(p, "price"))
  /\ ~ (p.sqft <= 0 \/ p.price <= MinPrice \/ p.price > MaxPrice)
  /\ ~ (p.sqft > MaxSqft)

\* ppsf = p['price'] / p['sqft'], in 1/PpsfScale units
Ppsf(p) ==
  (p.price \div p.sqft) * PpsfScale + ((p.price % p.sqft) * PpsfScale) \div p.sqft

\* Features without the `or 1970` fallback for a falsy yearBuilt
FeaturesNoYearFallback(p) ==
  << p.sqft,
     GetDefault(p, "beds", 0),
     Or(GetDefault(p, "baths", DefaultBaths), DefaultBaths),
     GetDefault(p, "yearBuilt", DefaultYearBuilt),
     Ppsf(p) >>

\* the 'features' list
Features(p) ==
  << p.sqft,
     GetDefault(p, "beds", 0),
     Or(GetDefault(p, "baths", DefaultBaths), DefaultBaths),
     Or(GetDefault(p, "yearBuilt", DefaultYearBuilt), DefaultYearBuilt),
     Ppsf(p) >>

\* int(x) of a non-negative fixed-point value
IntOf(x, scale) == x \div scale

(* ---------------- StandardScaler ---------------- *)
RECURSIVE SumCol(_, _, _)
SumCol(X, f, n) == IF n = 0 THEN 0 ELSE X[n][f] + SumCol(X, f, n - 1)

\* fit: the per-column statistics of the working set (mean_ = sum / n)
ScalerFit(X) ==
  [n |-> Len(X), sum |-> [f \in 1..NumFeatures |-> SumCol(X, f, Len(X))]]

\* transform: (x - mean_) / scale_, kept as n * (x - mean_); the positive
\* per-column divisor n * scale_ is dropped, a constant column maps to 0
ScalerTransform(sc, x) == [f \in 1..NumFeatures |-> sc.n * x[f] - sc.sum[f]]

(* ---------------- IsolationForest: trees ---------------- *)
Lcg(g) == (RngMul * g + RngInc) % RngMod

\* an integer in 0..n-1 from the high bits of the generator state
Draw(g, n) == (g \div 256) % n

SetMin(S) == CHOOSE m \in S : \A x \in S : m <= x
SetMax(S) == CHOOSE m \in S : \A x \in S : m >= x

\* the k-th smallest (from 0) element of a set of integers
Pick(S, k) == CHOOSE e \in S : Cardinality({d \in S : d < e}) = k

RECURSIVE Log2Ceil(_)
Log2Ceil(n) == IF n <= 1 THEN 0 ELSE 1 + Log2Ceil((n + 1) \div 2)

\* max_samples = min(256, n_samples)
SubsampleSize(n) == Min(MaxSamples, n)

\* max_depth = ceil(log2(max(max_samples, 2)))
HeightLimit(psi) == Log2Ceil(IF psi > 2 THEN psi ELSE 2)

\* the features that are not constant over the rows of a node
NonConstant(X, rows) ==
  { f \in 1..NumFeatures : \E a, b \in rows : X[a][f] # X[b][f] }

\* IsLeaf with the depth test off by one
IsLeafDepthOffByOne(X, rows, depth, maxDepth) ==
  \/ Cardinality(rows) < 2
  \/ depth > maxDepth
  \/ NonConstant(X, rows) = {}

\* a node stops splitting
IsLeaf(X, rows, depth, maxDepth) ==
  \/ Cardinality(rows) < 2
  \/ depth >= maxDepth
  \/ NonConstant(X, rows) = {}

\* one random tree over the rows; returns the tree and the generator state
RECURSIVE BuildNode(_, _, _, _, _)
BuildNode(X, rows, depth, maxDepth, g) ==
  IF IsLeaf(X, rows, depth, maxDepth)
  THEN [tree |-> [leaf |-> TRUE, n |-> Cardinality(rows), depth |-> depth],
        g |-> g]
  ELSE LET nc   == NonConstant(X, rows)
           g1   == Lcg(g)
           f    == Pick(nc, Draw(g1, Cardinality(nc)))
           g2   == Lcg(g1)
           k    == Draw(g2, SplitRes)
           lo   == SetMin({X[r][f] : r \in rows})
           hi   == SetMax({X[r][f] : r \in rows})
           thr  == lo * SplitRes + k * (hi - lo)
           L    == { r \in rows : X[r][f] * SplitRes <= thr }
           lt   == BuildNode(X, L, depth + 1, maxDepth, g2)
           rt   == BuildNode(X, rows \ L, depth + 1, maxDepth, lt.g)
       IN [tree |-> [leaf |-> FALSE, feature |-> f, threshold |-> thr,
                     depth |-> depth, left |-> lt.tree, right |-> rt.tree],
           g |-> rt.g]

(* ---------------- IsolationForest: scoring ---------------- *)
\* _average_path_length(n) in 1/Milli, n = 1..64
AveragePathLengthTable ==
  << 0, 1000, 1207, 1852, 2327, 2707, 3024, 3296, 3536, 3749, 3941, 4117,
     4278, 4427, 4566, 4696, 4817, 4932, 5040, 5143, 5241, 5334, 5423, 5509,
     5591, 5669, 5745, 5818, 5888, 5956, 6021, 6085, 6147, 6206, 6264, 6321,
     6376, 6429, 6481, 6532, 6581, 6629, 6676, 6722, 6767, 6811, 6854, 6896,
     6938, 6978, 7018, 7057, 7095, 7132, 7169, 7205, 7240, 7275, 7309, 7343,
     7376, 7408, 7440, 7472 >>

AveragePathLength(n) == IF n <= 1 THEN 0 ELSE AveragePathLengthTable[n]

\* edges from the root to the leaf of x, plus the leaf's correction
RECURSIVE PathLength(_, _)
PathLength(t, x) ==
  IF t.leaf THEN t.depth * Milli + AveragePathLength(t.n)
  ELSE IF x[t.feature] * SplitRes <= t.threshold
       THEN PathLength(t.left, x)
       ELSE PathLength(t.right, x)

RECURSIVE SumPathLength(_, _, _)
SumPathLength(forest, x, t) ==
  IF t = 0 THEN 0 ELSE PathLength(forest[t], x) + SumPathLength(forest, x, t - 1)

\* 2^(-j/8) in 1/100000, j = 0..8
Exp2Table == << 100000, 91700, 84090, 77111, 70711, 64842, 59460, 54525, 50000 >>

RECURSIVE Pow2(_)
Pow2(q) == IF q = 0 THEN 1 ELSE 2 * Pow2(q - 1)

\* 2^(-x) for x in 1/Milli, in 1/100000
Exp2Neg(xm) ==
  LET q   == xm \div Milli
      fr  == xm % Milli
      seg == fr \div 125
      r   == fr % 125
      v   == Exp2Table[seg + 1] - ((Exp2Table[seg + 1] - Exp2Table[seg + 2]) * r) \div 125
  IN v \div Pow2(q)

\* score_samples(x) = -2^(-depths / (n_estimators * c(max_samples)))
ScoreSample(forest, psi, x) ==
  LET depths == SumPathLength(forest, x, Len(forest))
      denom  == Len(forest) * AveragePathLength(psi)
      xm     == IF denom # 0 THEN (depths * Milli) \div denom ELSE Milli
  IN 0 - Exp2Neg(xm)

ScoreSamples(forest, psi, X) ==
  [r \in 1..Len(X) |-> ScoreSample(forest, psi, X[r])]

RECURSIVE Insert(_, _)
Insert(s, v) ==
  IF s = <<>> THEN <<v>>
  ELSE IF v <= Head(s) THEN <<v>> \o s ELSE <<Head(s)>> \o Insert(Tail(s), v)

RECURSIVE Sort(_)
Sort(s) == IF s = <<>> THEN <<>> ELSE Insert(Sort(Tail(s)), Head(s))

\* np.percentile(a, q) with linear interpolation, times 100
Percentile100(a, q) ==
  LET srt == Sort(a)
      pos == q * (Len(a) - 1)
      k   == pos \div 100
      r   == pos % 100
  IN IF r = 0 THEN 100 * srt[k + 1]
     ELSE 100 * srt[k + 1] + r * (srt[k + 2] - srt[k + 1])

\* decision_function(x) = score_samples(x) - offset_, times 100
DecisionFunction(forest, psi, off, X) ==
  [r \in 1..Len(X) |-> 100 * ScoreSample(forest, psi, X[r]) - off]

\* PredictOne flagging the records at the threshold too
PredictOneInclusive(d) == IF d <= 0 THEN -1 ELSE 1

\* PredictOne with the sign of the test reversed
PredictOneReversed(d) == IF d > 0 THEN -1 ELSE 1

\* predict: -1 where decision_function < 0, else 1
PredictOne(d) == IF d < 0 THEN -1 ELSE 1

(* ---------------- normalisation ---------------- *)
SeqMin(s) == SetMin({s[k] : k \in 1..Len(s)})
SeqMax(s) == SetMax({s[k] : k \in 1..Len(s)})

\* NormalizeOne without the inversion
NormalizeOneNotInverted(s, mn, mx) ==
  IF mx - mn = 0 THEN NaN
  ELSE << (s - mn) * 100, mx - mn >>

\* 100 - ((s - min) / (max - min) * 100) as the fraction <<num, den>>;
\* 0 / 0 is NaN
NormalizeOne(s, mn, mx) ==
  IF mx - mn = 0 THEN NaN
  ELSE << 100 * (mx - mn) - (s - mn) * 100, mx - mn >>

\* int(q) of a non-negative fraction; int(NaN) raises
IntRaises(q) == q[2] = 0
IntOfFraction(q) == q[1] \div q[2]

\* the three output fields of every listing, or None
Output ==
  [k \in 1..Len(properties) |->
     << Get(properties[k], "dealScore"), Get(properties[k], "isAnomaly"),
        Get(properties[k], "pricePerSqft") >>]

(* ---------------- the program ---------------- *)
\* a generator seeded differently on every call (random_state=None)
RandomStateUnseeded == 42 + 7919 * run

\* random_state of the IsolationForest
RandomState == 42

\* fit scoring as soon as one tree exists
AllTreesBuiltEarly == Len(estimators_) >= 1

\* fit has built all n_estimators trees
AllTreesBuilt == Len(estimators_) >= NEstimators

\* the locals of a fresh call
FreshLocals ==
  /\ i = 1 /\ valid = <<>> /\ scaler = None /\ X_scaled = <<>>
  /\ estimators_ = <<>> /\ rng = None /\ offset_ = None
  /\ predictions = <<>> /\ scores = <<>> /\ normalized = <<>>

Init ==
  /\ properties \in Inputs
  /\ pc = "filter"
  /\ run = 1
  /\ prevOut = None
  /\ FreshLocals

\* for p in properties: ... continue
FilterReject ==
  /\ pc = "filter" /\ i <= Len(properties)
  /\ ~ Admits(properties[i])
  /\ i' = i + 1
  /\ UNCHANGED <<properties, pc, valid, scaler, X_scaled, estimators_, rng,
                 offset_, predictions, scores, normalized, run, prevOut>>

\* for p in properties: ... valid.append({...})
FilterAccept ==
  /\ pc = "filter" /\ i <= Len(properties)
  /\ Admits(properties[i])
  /\ valid' = Append(valid, [property |-> i,
                             ppsf     |-> Ppsf(properties[i]),
                             features |-> Features(properties[i])])
  /\ i' = i + 1
  /\ UNCHANGED <<properties, pc, scaler, X_scaled, estimators_, rng,
                 offset_, predictions, scores, normalized, run, prevOut>>

\* end of the filter loop, print
FilterEnd ==
  /\ pc = "filter" /\ i > Len(properties)
  /\ pc' = "scale"
  /\ UNCHANGED <<properties, i, valid, scaler, X_scaled, estimators_, rng,
                 offset_, predictions, scores, normalized, run, prevOut>>

\* X = np.array(...); scaler.fit_transform(X) on an empty working set raises
ScaleRaises ==
  /\ pc = "scale" /\ valid = <<>>
  /\ pc' = "raised"
  /\ UNCHANGED <<properties, i, valid, scaler, X_scaled, estimators_, rng,
                 offset_, predictions, scores, normalized, run, prevOut>>

\* X = np.array(...); X_scaled = scaler.fit_transform(X)
Scale ==
  /\ pc = "scale" /\ valid # <<>>
  /\ LET X  == [r \in 1..Len(valid) |-> valid[r].features]
         sc == ScalerFit(X)
     IN /\ scaler' = sc
        /\ X_scaled' = [r \in 1..Len(valid) |-> ScalerTransform(sc, X[r])]
  /\ pc' = "construct"
  /\ UNCHANGED <<properties, i, valid, estimators_, rng,
                 offset_, predictions, scores, normalized, run, prevOut>>

\* clf = IsolationForest(contamination=0.1, random_state=42, n_estimators=100)
Construct ==
  /\ pc = "construct"
  /\ rng' = RandomState
  /\ estimators_' = <<>>
  /\ pc' = "fit"
  /\ UNCHANGED <<properties, i, valid, scaler, X_scaled,
                 offset_, predictions, scores, normalized, run, prevOut>>

\* fit: one more tree over a sub-sample of max_samples rows
FitTree ==
  /\ pc = "fit" /\ ~ AllTreesBuilt
  /\ LET n   == Len(X_scaled)
         psi == SubsampleSize(n)
         b   == BuildNode(X_scaled, 1..psi, 0, HeightLimit(psi), rng)
     IN /\ estimators_' = Append(estimators_, b.tree)
        /\ rng' = b.g
  /\ UNCHANGED <<properties, pc, i, valid, scaler, X_scaled,
                 offset_, predictions, scores, normalized, run, prevOut>>

\* fit: offset_ = np.percentile(score_samples(X), 100 * contamination)
FitOffset ==
  /\ pc = "fit" /\ AllTreesBuilt
  /\ offset_' = << Percentile100(ScoreSamples(estimators_, SubsampleSize(Len(X_scaled)),
                                              X_scaled), ContaminationPct) >>
  /\ pc' = "predict"
  /\ UNCHANGED <<properties, i, valid, scaler, X_scaled, estimators_, rng,
                 predictions, scores, normalized, run, prevOut>>

\* predictions = clf.fit_predict(X_scaled): the predict half
Predict ==
  /\ pc = "predict"
  /\ LET d == DecisionFunction(estimators_, SubsampleSize(Len(X_scaled)),
                               offset_[1], X_scaled)
     IN predictions' = [r \in 1..Len(X_scaled) |-> PredictOne(d[r])]
  /\ pc' = "decision"
  /\ UNCHANGED <<properties, i, valid, scaler, X_scaled, estimators_, rng,
                 offset_, scores, normalized, run, prevOut>>

\* scores = clf.decision_function(X_scaled)
Decision ==
  /\ pc = "decision"
  /\ scores' = DecisionFunction(estimators_, SubsampleSize(Len(X_scaled)),
                                offset_[1], X_scaled)
  /\ pc' = "normalize"
  /\ UNCHANGED <<properties, i, valid, scaler, X_scaled, estimators_, rng,
                 offset_, predictions, normalized, run, prevOut>>

\* min_score, max_score = ...; normalized = 100 - (...)
Normalize ==
  /\ pc = "normalize"
  /\ normalized' = [r \in 1..Len(scores) |->
                      NormalizeOne(scores[r], SeqMin(scores), SeqMax(scores))]
  /\ i' = 1
  /\ pc' = "write"
  /\ UNCHANGED <<properties, valid, scaler, X_scaled, estimators_, rng,
                 offset_, predictions, scores, run, prevOut>>

\* for i, v in enumerate(valid): int(normalized[i]) of NaN raises ValueError
WriteRaises ==
  /\ pc = "write" /\ i <= Len(valid)
  /\ IntRaises(normalized[i])
  /\ pc' = "raised"
  /\ UNCHANGED <<properties, i, valid, scaler, X_scaled, estimators_, rng,
                 offset_, predictions, scores, normalized, run, prevOut>>

\* WriteBack writing to the i-th input record instead of v['property']
WriteBackByPosition ==
  /\ pc = "write" /\ i <= Len(valid)
  /\ ~ IntRaises(normalized[i])
  /\ LET out == ("dealScore" :> IntOfFraction(normalized[i]))
                @@ ("isAnomaly" :> (IF predictions[i] = -1 THEN 1 ELSE 0))
                @@ ("pricePerSqft" :> IntOf(valid[i].ppsf, PpsfScale))
     IN properties' = [properties EXCEPT ![i] = out @@ properties[i]]
  /\ i' = i + 1
  /\ UNCHANGED <<pc, valid, scaler, X_scaled, estimators_, rng,
                 offset_, predictions, scores, normalized, run, prevOut>>

\* for i, v in enumerate(valid): the three assignments
WriteBack ==
  /\ pc = "write" /\ i <= Len(valid)
  /\ ~ IntRaises(normalized[i])
  /\ LET k == valid[i].property
         out == ("dealScore" :> IntOfFraction(normalized[i]))
                @@ ("isAnomaly" :> (IF predictions[i] = -1 THEN 1 ELSE 0))
                @@ ("pricePerSqft" :> IntOf(valid[i].ppsf, PpsfScale))
     IN properties' = [properties EXCEPT ![k] = out @@ properties[k]]
  /\ i' = i + 1
  /\ UNCHANGED <<pc, valid, scaler, X_scaled, estimators_, rng,
                 offset_, predictions, scores, normalized, run, prevOut>>

\* return valid
Return ==
  /\ pc = "write" /\ i > Len(valid)
  /\ pc' = "done"
  /\ UNCHANGED <<properties, i, valid, scaler, X_scaled, estimators_, rng,
                 offset_, predictions, scores, normalized, run, prevOut>>

\* the caller runs the pipeline again on the same records
Rerun ==
  /\ pc \in {"done", "raised"} /\ run < MaxRuns
  /\ prevOut' = << [outcome |-> pc, out |-> Output] >>
  /\ run' = run + 1
  /\ pc' = "filter"
  /\ i' = 1 /\ valid' = <<>> /\ scaler' = None /\ X_scaled' = <<>>
  /\ estimators_' = <<>> /\ rng' = None /\ offset_' = None
  /\ predictions' = <<>> /\ scores' = <<>> /\ normalized' = <<>>
  /\ UNCHANGED properties

Next ==
  \/ FilterReject \/ FilterAccept \/ FilterEnd
  \/ ScaleRaises \/ Scale \/ Construct
  \/ FitTree \/ FitOffset \/ Predict \/ Decision
  \/ Normalize \/ WriteRaises \/ WriteBack \/ Return
  \/ Rerun

Spec == Init /\ [][Next]_vars

(* ---------------- properties ---------------- *)
\* the smallest working set the specification allows a forest for
MinWorkingSet == 10

\* the listings the filter accepted
Accepted == { valid[k].property : k \in 1..Len(valid) }

HasKey(p, k) == k \in DOMAIN p

\* the call has ended, by return or by an exception
Ended == pc \in {"done", "raised"}

Flagged == { k \in Accepted : HasKey(properties[k], "isAnomaly")
                               /\ properties[k].isAnomaly = 1 }

\* round(n / 10) as Python rounds (half to even)
RoundTenth(n) ==
  LET q == n \div 10
      r == n % 10
  IN IF r > 5 \/ (r = 5 /\ q % 2 = 1) THEN q + 1 ELSE q

Abs(x) == IF x < 0 THEN 0 - x ELSE x

\* C1: after calculate_deal_score has run on any input, every accepted
\* record carries a dealScore that is an integer in 0..100 and an isAnomaly
\* that is 0 or 1.
C1_ScoresInRange ==
  Ended =>
    \A k \in Accepted :
      /\ HasKey(properties[k], "dealScore")
      /\ properties[k].dealScore \in 0..100
      /\ HasKey(properties[k], "isAnomaly")
      /\ properties[k].isAnomaly \in {0, 1}

\* the admission rule as the claim states it
AdmittedByRule(p) ==
  /\ HasKey(p, "sqft") /\ HasKey(p, "beds") /\ HasKey(p, "price")
  /\ p.sqft # 0 /\ p.beds # 0 /\ p.price # 0
  /\ 0 < p.sqft /\ p.sqft <= 10000
  /\ 50000 < p.price /\ p.price <= 5000000

\* C2: a record is in the working set exactly when sqft, beds and price are
\* present and truthy, 0 < sqft <= 10000 and 50000 < price <= 5000000; every
\* other record the filter has passed over is excluded.
C2_FilterExact ==
  LET seen == IF pc = "filter" THEN i - 1 ELSE Len(properties)
  IN Accepted = { k \in 1..seen : AdmittedByRule(properties[k]) }

C2_Witness ==
  /\ pc = "scale"
  /\ \E a, b \in 1..Len(properties) :
       /\ Get(properties[a], "price") = <<50000>> /\ a \notin Accepted
       /\ Get(properties[b], "price") = <<5000000>>
       /\ Get(properties[b], "sqft") = <<10000>>
       /\ b \in Accepted

\* all raw decision values of the working set are equal
Degenerate == scores # <<>> /\ SeqMin(scores) = SeqMax(scores)

\* C3: when all raw decision values are equal, the normaliser gives every
\* record the deal score 50 and the anomaly flag false, without dividing by
\* zero.
C3_DegenerateFallback ==
  (Degenerate /\ normalized # <<>>) =>
    /\ pc # "raised"
    /\ \A r \in 1..Len(normalized) :
         /\ normalized[r] # NaN
         /\ IntOfFraction(normalized[r]) = 50
         /\ predictions[r] = 1

\* C4: a working set below the minimum floor ends the call before scaling,
\* forest fitting or normalisation.
C4_InsufficientData ==
  (pc # "filter" /\ Len(valid) < MinWorkingSet) =>
    /\ scaler = None
    /\ estimators_ = <<>>
    /\ normalized = <<>>

C6_OrderReversing ==
  pc = "done" =>
    \A a, b \in 1..Len(valid) :
      LET da == properties[valid[a].property].dealScore
          db == properties[valid[b].property].dealScore
      IN /\ scores[a] <= scores[b] => da >= db
         /\ scores[a] = SeqMin(scores) => da = 100
         /\ scores[a] = SeqMax(scores) => da = 0

C6_Witness ==
  /\ pc = "done"
  /\ \E a, b, c \in 1..Len(valid) :
       /\ scores[a] < scores[b] /\ scores[b] < scores[c]
       /\ properties[valid[a].property].dealScore = 100
       /\ properties[valid[b].property].dealScore \in 1..99
       /\ properties[valid[c].property].dealScore = 0

C9_FeatureTuple ==
  \A k \in 1..Len(valid) :
    LET p     == properties[valid[k].property]
        baths == IF HasKey(p, "baths") /\ p.baths # 0 THEN p.baths ELSE 0
        year  == IF HasKey(p, "yearBuilt") /\ p.yearBuilt # 0 THEN p.yearBuilt ELSE 1970
        q     == valid[k].features[5]
    IN /\ Len(valid[k].features) = 5
       /\ valid[k].features[1] = p.sqft
       /\ valid[k].features[2] = p.beds
       /\ valid[k].features[3] = baths
       /\ valid[k].features[4] = year
       /\ q = valid[k].ppsf
       /\ q * p.sqft <= p.price * PpsfScale
       /\ p.price * PpsfScale < (q + 1) * p.sqft
       /\ HasKey(p, "pricePerSqft") =>
            /\ p.pricePerSqft * p.sqft <= p.price
            /\ p.price < (p.pricePerSqft + 1) * p.sqft

C9_Witness ==
  /\ pc = "done"
  /\ \E a, b \in 1..Len(valid) :
       LET pa == properties[valid[a].property]
           pb == properties[valid[b].property]
       IN /\ ~ HasKey(pa, "baths") /\ ~ HasKey(pa, "yearBuilt")
          /\ valid[a].features[3] = 0 /\ valid[a].features[4] = 1970
          /\ pa.pricePerSqft * pa.sqft < pa.price
          /\ HasKey(pb, "yearBuilt") /\ pb.yearBuilt = 0
          /\ valid[b].features[4] = 1970

\* a score of the forest has been computed in this call
ScoringBegun == offset_ # None

\* C10: no score is computed before all n_estimators trees are built, and
\* once scoring has begun the scaler statistics and the forest never change.
C10_BuildThenScore ==
  [][ /\ ScoringBegun' => Len(estimators_') = NEstimators
      /\ (ScoringBegun /\ ScoringBegun') =>
            (scaler' = scaler /\ estimators_' = estimators_ /\ X_scaled' = X_scaled)
    ]_vars

C10_Witness ==
  /\ pc = "done" /\ ScoringBegun
  /\ Len(estimators_) = NEstimators
  /\ scores # <<>> /\ scaler # None

\* the leaves of a tree, each with the left (0) / right (1) turns leading to it
RECURSIVE LeavesOf(_, _)
LeavesOf(t, path) ==
  IF t.leaf THEN { [n |-> t.n, depth |-> t.depth, path |-> path] }
  ELSE LeavesOf(t.left, Append(path, 0)) \cup LeavesOf(t.right, Append(path, 1))

\* the turns a point takes from the root to its leaf
RECURSIVE TurnsOf(_, _)
TurnsOf(t, x) ==
  IF t.leaf THEN <<>>
  ELSE IF x[t.feature] * SplitRes <= t.threshold
       THEN <<0>> \o TurnsOf(t.left, x)
       ELSE <<1>> \o TurnsOf(t.right, x)

\* the sample rows that ended at a leaf of tree t
RowsAt(t, lf) ==
  { r \in 1..SubsampleSize(Len(X_scaled)) : TurnsOf(t, X_scaled[r]) = lf.path }

\* ceil(log2(subsample size)) of the current working set
LeafHeightLimit == Log2Ceil(SubsampleSize(Len(X_scaled)))

\* the tree fit has just finished building
NewestTree == IF pc = "fit" /\ estimators_ # <<>> THEN {Len(estimators_)} ELSE {}

OutputKeys == {"dealScore", "isAnomaly", "pricePerSqft"}

\* one step leaves record k alone but for the output fields
FramePreserved(k) ==
  /\ DOMAIN properties'[k] \subseteq DOMAIN properties[k] \cup OutputKeys
  /\ \A key \in DOMAIN properties[k] \ OutputKeys :
       /\ key \in DOMAIN properties'[k]
       /\ properties'[k][key] = properties[k][key]

\* C12: records the filters reject are never changed, accepted records keep
\* every field but dealScore, isAnomaly and pricePerSqft, and the returned
\* list holds the accepted records in input order.
C12_FrameEffect ==
  [][ /\ Len(properties') = Len(properties)
      /\ \A k \in 1..Len(properties) :
           /\ FramePreserved(k)
           /\ ~ AdmittedByRule(properties[k]) => properties'[k] = properties[k]
      /\ \A a, b \in 1..Len(valid') :
           a < b => valid'[a].property < valid'[b].property
    ]_vars

\* a finished run over a rejected record with metadata that precedes
\* accepted ones, the metadata of both intact
C12_Witness ==
  /\ pc = "done"
  /\ \E a, b \in 1..Len(properties) :
       /\ a < b
       /\ ~ AdmittedByRule(properties[a])
       /\ Get(properties[a], "address") = <<"9 Oak Ave">>
       /\ DOMAIN properties[a] \cap OutputKeys = {}
       /\ b \in Accepted
       /\ Get(properties[b], "address") = <<"12 Elm St">>
       /\ Get(properties[b], "soldDate") = <<"2024-05-01">>
       /\ OutputKeys \subseteq DOMAIN properties[b]

====
